---- MODULE Spec2Model ----
(***************************************************************************)
(* TwitchWebsocket: the connection thread (TwitchWebsocket.py) and the     *)
(* line parser (Message.py).                                               *)
(*                                                                         *)
(* Text is a sequence of one-character strings; bytes on the wire are the  *)
(* same for ASCII, and a two-byte UTF-8 character is two byte values.      *)
(*                                                                         *)
(* Spec      the thread of run(), its owner and the server                 *)
(* LiveSpec  the same against a silent server, with fair scheduling        *)
(* SpecApp   run()'s connect and reconnect, and calls of another thread    *)
(* SpecParse Message(raw_data) on lines built from their parts             *)
(***************************************************************************)
EXTENDS Integers, Sequences, FiniteSets, TLC

(***************************************************************************)
(* Python string primitives                                                *)
(***************************************************************************)

\* Python's None; no text equals it (text holds one-character strings only).
NoneVal == <<"None">>

\* str.startswith(prefix)
StartsWith(s, p) == Len(s) >= Len(p) /\ SubSeq(s, 1, Len(p)) = p

\* str.find(sub, start), 1-based; 0 when sub does not occur at or after start.
Find(s, sub, start) ==
    LET hits == {i \in start..(Len(s) - Len(sub) + 1) :
                     SubSeq(s, i, i + Len(sub) - 1) = sub}
    IN  IF hits = {} THEN 0 ELSE CHOOSE i \in hits : \A j \in hits : i <= j

\* sub in s
Contains(s, sub) == Find(s, sub, 1) # 0

\* str.split(sep): every non-overlapping occurrence, left to right.
RECURSIVE Split(_, _)
Split(s, sep) ==
    LET i == Find(s, sep, 1)
    IN  IF i = 0 THEN <<s>>
        ELSE <<SubSeq(s, 1, i - 1)>> \o Split(SubSeq(s, i + Len(sep), Len(s)), sep)

\* str.split(sep, 1): at the first occurrence only.
SplitOnce(s, sep) ==
    LET i == Find(s, sep, 1)
    IN  IF i = 0 THEN <<s>>
        ELSE <<SubSeq(s, 1, i - 1), SubSeq(s, i + Len(sep), Len(s))>>

\* sep.join(parts)
RECURSIVE Join(_, _)
Join(parts, sep) ==
    IF parts = <<>> THEN <<>>
    ELSE IF Len(parts) = 1 THEN parts[1]
    ELSE parts[1] \o sep \o Join(Tail(parts), sep)

\* str.replace(c, "") for a single character c
RemoveChar(s, c) == SelectSeq(s, LAMBDA x : x # c)

UpperLetters ==
    <<"A","B","C","D","E","F","G","H","I","J","K","L","M",
      "N","O","P","Q","R","S","T","U","V","W","X","Y","Z">>

LowerLetters ==
    <<"a","b","c","d","e","f","g","h","i","j","k","l","m",
      "n","o","p","q","r","s","t","u","v","w","x","y","z">>

LowerChar(c) ==
    IF \E i \in 1..26 : UpperLetters[i] = c
    THEN LowerLetters[CHOOSE i \in 1..26 : UpperLetters[i] = c]
    ELSE c

\* str.lower()
Lower(s) == [i \in 1..Len(s) |-> LowerChar(s[i])]

CRLF == <<"\r", "\n">>

(***************************************************************************)
(* UTF-8. The one non-ASCII character of the model is "é", bytes C3 A9.    *)
(***************************************************************************)
LeadByte == "xC3"
ContByte == "xA9"
EAcute == "é"

\* bytes.decode('UTF-8'): the text, or NoneVal for UnicodeDecodeError (a lead
\* byte without its continuation byte, or a continuation byte alone).
RECURSIVE Decode(_)
Decode(b) ==
    IF b = <<>> THEN <<>>
    ELSE IF b[1] = LeadByte
         THEN IF Len(b) >= 2 /\ b[2] = ContByte
              THEN LET rest == Decode(SubSeq(b, 3, Len(b)))
                   IN  IF rest = NoneVal THEN NoneVal ELSE <<EAcute>> \o rest
              ELSE NoneVal
    ELSE IF b[1] = ContByte THEN NoneVal
    ELSE LET rest == Decode(Tail(b))
         IN  IF rest = NoneVal THEN NoneVal ELSE <<b[1]>> \o rest

\* bytes(text, 'UTF-8')
RECURSIVE Encode(_)
Encode(s) ==
    IF s = <<>> THEN <<>>
    ELSE (IF s[1] = EAcute THEN <<LeadByte, ContByte>> ELSE <<s[1]>>)
         \o Encode(Tail(s))

(***************************************************************************)
(* Message.py: the parser                                                  *)
(***************************************************************************)
SpaceColon == <<" ", ":">>
TmiHost == <<"t","m","i",".","t","w","i","t","c","h",".","t","v">>
JtvPrefix == <<"j","t","v"," ">>
PingWord == <<"P","I","N","G">>
PongWord == <<"P","O","N","G">>
CapAck == <<"C","A","P"," ","*"," ","A","C","K">>
ActionWord == <<"A","C","T","I","O","N">>
MeWord == <<"/","m","e">>
\* chr(1), the control byte around an ACTION body
Soh == "x01"

\* The fields __init__ sets before parsing starts; `error` is the exception
\* class raised out of __init__, "" when the Message is constructed.
EmptyMessage(raw) ==
    [error |-> "", full_message |-> raw, tags |-> <<>>, command |-> NoneVal,
     user |-> NoneVal, type |-> NoneVal, params |-> NoneVal,
     channel |-> NoneVal, message |-> NoneVal]

Raised(raw, kind) == [EmptyMessage(raw) EXCEPT !.error = kind]

\* parse_tags: the facts of the tag block, "@" stripped, split on ";".
TagFacts(first) == Split(Tail(first), <<";">>)

\* key, data = fact.split("=", 1) raises ValueError unless it yields two parts.
TagsWellFormed(facts) ==
    \A i \in 1..Len(facts) : Len(SplitOnce(facts[i], <<"=">>)) = 2

\* self.tags as a sequence of <<key, data>> in insertion order; a repeated
\* key keeps its first position and takes the last data, as a dict does.
RECURSIVE TagDict(_, _)
TagDict(facts, acc) ==
    IF facts = <<>> THEN acc
    ELSE LET kd == SplitOnce(facts[1], <<"=">>)
             at == {i \in 1..Len(acc) : acc[i][1] = kd[1]}
             nxt == IF at = {} THEN Append(acc, kd)
                    ELSE [acc EXCEPT ![CHOOSE i \in at : TRUE] = kd]
         IN  TagDict(Tail(facts), nxt)

\* parse_user
ParseUser(command) ==
    IF StartsWith(command, JtvPrefix) \/ StartsWith(command, TmiHost \o <<" ">>)
    THEN NoneVal
    ELSE Split(Split(command, TmiHost)[1], <<"!">>)[1]

\* parse_type: NoneVal stands for the IndexError of command.split(" ")[1].
ParseType(command) ==
    IF Contains(command, CapAck) THEN CapAck
    ELSE LET words == Split(command, <<" ">>)
         IN  IF Len(words) < 2 THEN NoneVal ELSE words[2]

\* parse_params: command[command.index(type) + len(type) + 1:]
ParseParams(command, type) ==
    SubSeq(command, Find(command, type, 1) + Len(type) + 1, Len(command))

\* parse_channel
ParseChannel(params) ==
    LET h == Find(params, <<"#">>, 1)
        sp == IF h = 0 THEN 0 ELSE Find(params, <<" ">>, h)
    IN  IF h = 0 THEN NoneVal
        ELSE SubSeq(params, h + 1, IF sp = 0 THEN Len(params) ELSE sp - 1)

\* parse_message: NoneVal stands for the IndexError of message[0] on "".
ParseMessage(rest) ==
    IF Len(rest) > 0
    THEN LET message == Join(rest, SpaceColon)
         IN  IF message = <<>> THEN NoneVal
             ELSE IF message[1] = Soh /\ SubSeq(message, 2, 7) = ActionWord
                  THEN MeWord \o SubSeq(message, 8, Len(message) - 1)
                  ELSE message
    ELSE <<>>

\* A PING branch that returns only after parse_user.
PingMessage_AfterUser(raw, tags, command) ==
    [EmptyMessage(raw) EXCEPT !.tags = tags, !.command = command,
                              !.type = SubSeq(command, 1, 4),
                              !.user = ParseUser(command)]

\* if self.command.startswith(("PING", "PONG")): self.type = self.command[:4];
\* return - with what parse_tags and the pop have set before.
PingMessage(raw, tags, command) ==
    [EmptyMessage(raw) EXCEPT !.tags = tags, !.command = command,
                              !.type = SubSeq(command, 1, 4)]

\* Message(raw_data)
Message(raw) ==
    LET split0 == Split(raw, SpaceColon)
        first == split0[1]
    IN
    IF first = <<>> THEN Raised(raw, "IndexError")            \* split[0][0]
    ELSE
    LET tagged == first[1] = "@"
        facts == IF tagged THEN TagFacts(first) ELSE <<>>
        split1 == IF tagged THEN Tail(split0) ELSE split0
    IN
    IF ~TagsWellFormed(facts) THEN Raised(raw, "ValueError")
    ELSE IF split1 = <<>> THEN Raised(raw, "IndexError")      \* split.pop(0)
    ELSE
    LET tags == TagDict(facts, <<>>)
        command == RemoveChar(split1[1], ":")
        rest == Tail(split1)
    IN
    IF StartsWith(command, PingWord) \/ StartsWith(command, PongWord)
    THEN PingMessage(raw, tags, command)
    ELSE
    LET user == ParseUser(command)
        type == ParseType(command)
    IN
    IF type = NoneVal THEN Raised(raw, "IndexError")
    ELSE
    LET params == ParseParams(command, type)
        channel == ParseChannel(params)
        message == ParseMessage(rest)
    IN
    IF message = NoneVal THEN Raised(raw, "IndexError")
    ELSE [error |-> "", full_message |-> raw, tags |-> tags,
          command |-> command, user |-> user, type |-> type,
          params |-> params, channel |-> channel, message |-> message]

(***************************************************************************)
(* Bounds of the model                                                     *)
(***************************************************************************)
\* Failed dials modelled within one connect() call.
MaxDialFails == 12
\* Sockets the model lets connect over one run of the thread.
MaxConnects == 2
\* Calls other threads make on the object over one run.
MaxAppCalls == 1

(***************************************************************************)
(* Program constants                                                       *)
(***************************************************************************)
RecvSize == 8192
SocketTimeout == 330
\* range(10) of get_reconnection_delay
DelaySteps == 10

(***************************************************************************)
(* Configurations and server streams the model runs                        *)
(***************************************************************************)
T_Tags == <<"T","a","g","s">>
T_Commands == <<"c","o","m","m","a","n","d","s">>

\* capability: None, one string, or a list of strings
Capabilities ==
    { [kind |-> "none", names |-> <<>>],
      [kind |-> "str", names |-> <<T_Tags>>],
      [kind |-> "list", names |-> <<T_Tags, T_Commands>>] }

\* __init__: self.chan = chan if chan[0] == "#" else "#" + chan
InitChan(chan) == IF chan[1] = "#" THEN chan ELSE <<"#">> \o chan

Configs ==
    { [chan |-> InitChan(<<"T","o","m">>), nick |-> <<"B","o","t">>,
       auth |-> <<"o",":","k">>, capability |-> c, live |-> TRUE]
      : c \in Capabilities }

\* Configurations for the calls of other threads: live and not live.
AppConfigs ==
    { [chan |-> InitChan(<<"T","o","m">>), nick |-> <<"B","o","t">>,
       auth |-> <<"o",":","k">>,
       capability |-> [kind |-> "str", names |-> <<T_Tags>>], live |-> l]
      : l \in BOOLEAN }

\* Arguments of those calls.
AppTexts == { <<"h","i">> }
AppUsers == { <<"a","l">> }
ChannelArgs == { <<"T","o","m">>, <<"#","t","o","m">>, <<>> }
LoginArgs ==
    { <<<<"B","o","t">>, <<"o",":","k">>>>,
      <<<<>>, <<"o",":","k">>>>,
      <<<<"B","o","t">>, <<>>>> }

\* Lines given to Message(raw_data), by their parts: the tag block with the
\* pairs it spells, the sender prefix, the type, the parameters, the body
\* (NoneVal when the line has none).
TagBlocks ==
    { [text |-> <<>>, dict |-> <<>>],
      [text |-> <<"@","k","=","v">>, dict |-> << <<<<"k">>, <<"v">>>> >>],
      [text |-> <<"@","k","=",";","m","=","1">>,
       dict |-> << <<<<"k">>, <<>>>>, <<<<"m">>, <<"1">>>> >>] }
Prefixes ==
    { TmiHost, <<"j","t","v">>,
      <<"a","l","!","a","l","@","a","l",".">> \o TmiHost,
      <<"b","3","5","3",".">> \o TmiHost }
Types ==
    { <<"P","R","I","V","M","S","G">>, <<"J","O","I","N">>, <<"3","5","3">>,
      CapAck }
ParamTexts == { <<>>, <<"#","c">>, <<"b","3","5","3"," ","="," ","#","c">> }
Bodies ==
    { NoneVal, <<"h","i">>, <<"a"," ",":","b">>,
      <<Soh>> \o ActionWord \o <<" ","x",Soh>> }
PingBodies == { NoneVal, TmiHost }

\* ":<prefix> <type>[ <params>][ :<body>]" with or without a tag block, and
\* the keepalives "PING[ :<body>]", "PONG[ :<body>]" with or without one.
ParseInputs ==
    { [tags |-> t, prefix |-> p, type |-> ty, params |-> pa, body |-> b]
        : t \in TagBlocks, p \in Prefixes, ty \in Types, pa \in ParamTexts,
          b \in Bodies }
    \cup
    { [tags |-> t, prefix |-> <<>>, type |-> ty, params |-> <<>>, body |-> b]
        : t \in TagBlocks, ty \in {PingWord, PongWord}, b \in PingBodies }

\* The line of an input, as the server writes it.
LineOf(inp) ==
    (IF inp.tags.text # <<>> THEN inp.tags.text \o <<" ",":">>
     ELSE IF inp.prefix # <<>> THEN <<":">> ELSE <<>>)
    \o (IF inp.prefix # <<>> THEN inp.prefix \o <<" ">> ELSE <<>>)
    \o inp.type
    \o (IF inp.params # <<>> THEN <<" ">> \o inp.params ELSE <<>>)
    \o (IF inp.body # NoneVal THEN <<" ",":">> \o inp.body ELSE <<>>)

\* What the server sends on one connection, as bytes.
StreamPing == PingWord \o CRLF \o <<"a"," ","b">> \o CRLF \o <<"c">>
StreamEmptyLine == CRLF \o <<"a"," ","b">> \o CRLF
StreamBadTag == <<"@","x">> \o CRLF \o PingWord \o CRLF
StreamUtf8 == <<"a"," ",LeadByte,ContByte>> \o CRLF
Streams == {StreamPing, StreamEmptyLine, StreamBadTag, StreamUtf8}

(***************************************************************************)
(* State                                                                   *)
(***************************************************************************)
VARIABLES
    cfg,        \* the constructor's arguments as stored by __init__
    stopEvent,  \* self._stop_event
    conn,       \* self.conn: the socket object
    wire,       \* what has been written on the socket conn, in order
    inflight,   \* bytes the server has sent on conn and recv has not returned
    peerClosed, \* the server has closed its side of conn
    pc,         \* where the thread running run() is
    gen,        \* reconnection_delay_gen of the running _initialize_websocket
    capIdx,     \* add_capability: capabilities requested so far
    data,       \* run's local `data`
    lines,      \* data_split: the lines the for loop has not finished
    message,    \* run's local `message`
    error,      \* the exception that ended run(), if one did
    mainPc,     \* where the thread that started the bot is
    fails,      \* history: failed dials of the running connect() call
    slept,      \* history: the last time.sleep() argument of that call
    connects,   \* history: dials that succeeded
    rx,         \* history: bytes recv has returned on conn
    lastRecv,   \* history: how the last recv ended, and on which socket
    decodeFailed, \* history: a recv on conn raised UnicodeDecodeError
    delivered,  \* history: full_message of every callback since conn was created
    stopMark,   \* history: stop() calls, and callbacks since the first of them
    echo,       \* what send_message has printed on standard output, in order
    appRes,     \* history: the last call another thread made on the object
    appCalls    \* history: how many such calls have been made

vars == <<cfg, stopEvent, conn, wire, inflight, peerClosed, pc, gen, capIdx,
          data, lines, message, error, mainPc, fails, slept, connects, rx,
          lastRecv, decodeFailed, delivered, stopMark, echo, appRes, appCalls>>

appVars == <<echo, appRes, appCalls>>

NoSocket == [state |-> "none", timeout |-> 0, shutWr |-> FALSE]
NoError == [exc |-> "", at |-> ""]
NoMark == [set |-> FALSE, calls |-> 0, again |-> FALSE]
NoCall == [op |-> "", args |-> <<>>, raised |-> "", sent |-> "", line |-> <<>>]

(***************************************************************************)
(* get_reconnection_delay: the generator, by its point of suspension       *)
(***************************************************************************)
FreshGen == [phase |-> "start", i |-> 0, val |-> 0]

\* The generator with range(9): the delays stop growing at 256.
GenNext_ShortRange(g) ==
    IF g.phase = "start"
    THEN [yield |-> 0, gen |-> [g EXCEPT !.phase = "for"]]
    ELSE IF g.phase = "for" /\ g.i < DelaySteps - 1
    THEN [yield |-> 2 ^ g.i,
          gen |-> [g EXCEPT !.i = g.i + 1, !.val = 2 ^ g.i]]
    ELSE [yield |-> g.val, gen |-> [g EXCEPT !.phase = "hold"]]

\* next(reconnection_delay_gen): the value yielded and the generator after it.
GenNext(g) ==
    IF g.phase = "start"
    THEN [yield |-> 0, gen |-> [g EXCEPT !.phase = "for"]]
    ELSE IF g.phase = "for" /\ g.i < DelaySteps
    THEN [yield |-> 2 ^ g.i,
          gen |-> [g EXCEPT !.i = g.i + 1, !.val = 2 ^ g.i]]
    ELSE [yield |-> g.val, gen |-> [g EXCEPT !.phase = "hold"]]

(***************************************************************************)
(* _send                                                                   *)
(***************************************************************************)
\* bytes("{}{}\r\n".format(command, message), 'UTF-8')
Cmd(command, msg) == Encode(command \o msg \o CRLF)

\* conn.send: the bytes are taken ("ok"), 0 is returned ("zero"), or OSError
\* is raised; a socket that is not connected or whose write side is shut
\* down only raises.
SendResults(c) ==
    IF c.state = "connected" /\ ~c.shutWr THEN {"ok", "zero", "OSError"}
    ELSE {"OSError"}

\* A _send that takes a zero-byte write for an ended connection's OSError.
SendError_ZeroAsOSError(r) == [exc |-> "OSError", at |-> "_send"]

\* if sent == 0: raise RuntimeError("Socket connection broken."); an OSError
\* of conn.send passes through.
SendError(r) ==
    IF r = "zero" THEN [exc |-> "RuntimeError", at |-> "_send"]
    ELSE [exc |-> "OSError", at |-> "_send"]

W_Pass == <<"P","A","S","S"," ">>
W_Nick == <<"N","I","C","K"," ">>
W_Join == <<"J","O","I","N"," ">>
W_Pong == <<"P","O","N","G"," ">>
W_Part == <<"P","A","R","T"," ">>
W_Privmsg == <<"P","R","I","V","M","S","G"," ">>
W_Whisper == <<"/","w"," ">>
W_CapReq == <<"C","A","P"," ","R","E","Q"," ">>
W_TwitchTv == <<":","t","w","i","t","c","h",".","t","v","/">>

\* _send called by the thread of run(): the write, then `after`; an exception
\* leaves run() and ends the thread.
WorkerSend(command, msg, after) ==
    \E r \in SendResults(conn) :
        IF r = "ok"
        THEN /\ wire' = Append(wire, [by |-> "run", bytes |-> Cmd(command, msg)])
             /\ pc' = after
             /\ error' = error
        ELSE /\ wire' = wire
             /\ pc' = "ended"
             /\ error' = SendError(r)

\* The capabilities add_capability requests, in order.
CapNames(capability) ==
    IF capability.kind = "list"
    THEN [i \in 1..Len(capability.names) |-> Lower(Lower(capability.names[i]))]
    ELSE [i \in 1..Len(capability.names) |-> Lower(capability.names[i])]

(***************************************************************************)
(* run: the line splitter                                                  *)
(***************************************************************************)
\* A splitter that forgets the incomplete fragment.
SplitData_DropsFragment(buf) ==
    LET parts == Split(buf, CRLF)
    IN  [lines |-> SubSeq(parts, 1, Len(parts) - 1), data |-> <<>>]

\* data_split = data.split("\r\n"); data = data_split.pop()
SplitData(buf) ==
    LET parts == Split(buf, CRLF)
    IN  [lines |-> SubSeq(parts, 1, Len(parts) - 1), data |-> parts[Len(parts)]]

(***************************************************************************)
(* Initial state: the object after __init__, the thread not started        *)
(***************************************************************************)
InitOf(configs) ==
    /\ cfg \in configs
    /\ stopEvent = FALSE
    /\ conn = NoSocket
    /\ wire = <<>>
    /\ inflight = <<>>
    /\ peerClosed = FALSE
    /\ pc = "new"
    /\ gen = FreshGen
    /\ capIdx = 0
    /\ data = <<>>
    /\ lines = <<>>
    /\ message = EmptyMessage(<<>>)
    /\ error = NoError
    /\ mainPc = "new"
    /\ fails = 0
    /\ slept = 0
    /\ connects = 0
    /\ rx = <<>>
    /\ lastRecv = [how |-> "none", sock |-> 0]
    /\ decodeFailed = FALSE
    /\ delivered = <<>>
    /\ stopMark = NoMark
    /\ echo = <<>>
    /\ appRes = NoCall
    /\ appCalls = 0

Init == InitOf(Configs)

sockVars == <<conn, wire, inflight, peerClosed>>
loopVars == <<data, lines, message>>
dialHist == <<fails, slept, connects>>
recvHist == <<rx, lastRecv, decodeFailed>>

(***************************************************************************)
(* The thread that owns the object                                         *)
(***************************************************************************)
\* start_nonblocking: start(); run() begins with connect().
StartNonblocking ==
    /\ mainPc = "new"
    /\ mainPc' = "app"
    /\ pc' = "dial"
    /\ gen' = FreshGen
    /\ fails' = 0
    /\ UNCHANGED <<appVars, cfg, stopEvent, sockVars, capIdx, loopVars, error, slept,
                   connects, recvHist, delivered, stopMark>>

\* start_blocking: start_nonblocking(), then wait().
StartBlocking ==
    /\ mainPc = "new"
    /\ mainPc' = "wait"
    /\ pc' = "dial"
    /\ gen' = FreshGen
    /\ fails' = 0
    /\ UNCHANGED <<appVars, cfg, stopEvent, sockVars, capIdx, loopVars, error, slept,
                   connects, recvHist, delivered, stopMark>>

\* The history of stop() calls after one more: the first call starts the
\* count of callbacks, a later one is noted as a repeated call.
StopCalled(mark) ==
    IF mark.set THEN [mark EXCEPT !.again = TRUE]
    ELSE [set |-> TRUE, calls |-> 0, again |-> FALSE]

\* An event whose set() flips the flag.
EventSet_Toggles(flag) == ~flag

\* threading.Event.set(): the flag is true afterwards, whatever it was.
EventSet(flag) == TRUE

\* stop(), from any thread, at any time.
Stop ==
    /\ stopEvent' = EventSet(stopEvent)
    /\ stopMark' = StopCalled(stopMark)
    /\ UNCHANGED <<appVars, cfg, sockVars, pc, gen, capIdx, loopVars, error, mainPc,
                   dialHist, recvHist, delivered>>

\* wait(): is_alive() is false, the while loop ends.
WaitReturn ==
    /\ mainPc \in {"wait", "join"}
    /\ pc = "ended"
    /\ mainPc' = "returned"
    /\ UNCHANGED <<appVars, cfg, stopEvent, sockVars, pc, gen, capIdx, loopVars, error,
                   dialHist, recvHist, delivered, stopMark>>

\* wait(): KeyboardInterrupt or SystemExit arrives; the handler calls stop().
WaitInterrupt ==
    /\ mainPc = "wait"
    /\ mainPc' = "shutdown"
    /\ stopEvent' = EventSet(stopEvent)
    /\ stopMark' = StopCalled(stopMark)
    /\ UNCHANGED <<appVars, cfg, sockVars, pc, gen, capIdx, loopVars, error,
                   dialHist, recvHist, delivered>>

\* A handler that leaves the socket as it is.
ShutdownWr_Noop(c) == c

\* conn.shutdown(socket.SHUT_WR) on a socket in state c.
ShutdownWr(c) == [c EXCEPT !.shutWr = TRUE]

\* wait(), the handler: if self.conn is not None: self.conn.shutdown(SHUT_WR);
\* shutdown raises OSError on a socket that is not connected, out of wait().
WaitShutdown ==
    /\ mainPc = "shutdown"
    /\ IF conn.state = "none"
       THEN mainPc' = "join" /\ conn' = conn
       ELSE IF conn.state = "connected"
       THEN mainPc' = "join" /\ conn' = ShutdownWr(conn)
       ELSE mainPc' = "raised" /\ conn' = conn
    /\ UNCHANGED <<appVars, cfg, stopEvent, wire, inflight, peerClosed, pc, gen, capIdx,
                   loopVars, error, dialHist, recvHist, delivered,
                   stopMark>>

(***************************************************************************)
(* The server                                                              *)
(***************************************************************************)
\* The server closes the connection (on its own, or after our FIN), behind
\* the bytes it has sent: the close shows once they have been read.
ServerClose ==
    /\ conn.state = "connected"
    /\ inflight = <<>>
    /\ ~peerClosed
    /\ peerClosed' = TRUE
    /\ UNCHANGED <<appVars, cfg, stopEvent, conn, wire, inflight, pc, gen, capIdx,
                   loopVars, error, mainPc, dialHist, recvHist, delivered,
                   stopMark>>

(***************************************************************************)
(* connect, on the thread of run()                                         *)
(***************************************************************************)
\* socket.socket(...); settimeout(330)
NewSocket == [state |-> "unconnected", timeout |-> SocketTimeout, shutWr |-> FALSE]

\* _initialize_websocket: conn.connect succeeds, the method returns. The
\* server will send one of `streams` on the new connection.
Dial(streams) ==
    /\ pc = "dial"
    /\ conn' = [NewSocket EXCEPT !.state = "connected"]
    /\ wire' = <<>>
    /\ inflight' \in streams
    /\ peerClosed' = FALSE
    /\ rx' = <<>>
    /\ decodeFailed' = FALSE
    /\ connects' = connects + 1
    /\ delivered' = <<>>
    /\ gen' = FreshGen
    /\ fails' = 0
    /\ slept' = 0
    /\ pc' = "pass"
    /\ UNCHANGED <<appVars, cfg, stopEvent, capIdx, loopVars, error, mainPc,
                   lastRecv, stopMark>>

DialOk == Dial(Streams)

\* _initialize_websocket: conn.connect raises OSError; sleep, then retry, for
\* as long as the dial fails: the loop is `while True`. `fails` counts up to
\* MaxDialFails and stays there; from then on a failed dial brings the thread
\* back to the state it was in.
DialFail ==
    /\ pc = "dial"
    /\ conn' = NewSocket
    /\ wire' = <<>>
    /\ inflight' = <<>>
    /\ peerClosed' = FALSE
    /\ rx' = <<>>
    /\ decodeFailed' = FALSE
    /\ gen' = GenNext(gen).gen
    /\ slept' = GenNext(gen).yield
    /\ fails' = IF fails < MaxDialFails THEN fails + 1 ELSE fails
    /\ delivered' = <<>>
    /\ UNCHANGED <<appVars, cfg, stopEvent, pc, capIdx, loopVars, error, mainPc,
                   connects, lastRecv, stopMark>>

\* login: the asserts, then send_pass(authentication).
SendPass ==
    /\ pc = "pass"
    /\ IF cfg.nick = <<>> \/ cfg.auth = <<>>
       THEN /\ pc' = "ended"
            /\ error' = [exc |-> "AssertionError", at |-> "login"]
            /\ wire' = wire
       ELSE WorkerSend(W_Pass, cfg.auth, "nick")
    /\ UNCHANGED <<appVars, cfg, stopEvent, conn, inflight, peerClosed, gen, capIdx,
                   loopVars, mainPc, dialHist, recvHist, delivered,
                   stopMark>>

\* login: send_nick(nickname.lower())
SendNick ==
    /\ pc = "nick"
    /\ WorkerSend(W_Nick, Lower(cfg.nick), "join")
    /\ UNCHANGED <<appVars, cfg, stopEvent, conn, inflight, peerClosed, gen, capIdx,
                   loopVars, mainPc, dialHist, recvHist, delivered,
                   stopMark>>

\* A connect() that never requests the capabilities.
AfterJoin_SkipsCaps(capability) == "loop"

\* Where connect() goes after join_channel: add_capability unless capability
\* is None, and the caller (the loop test of run) when nothing is left.
AfterJoin(capability) ==
    IF capability.kind = "none" \/ Len(CapNames(capability)) = 0
    THEN "loop" ELSE "cap"

\* join_channel(self.chan): send_join(channel.lower())
SendJoin ==
    /\ pc = "join"
    /\ WorkerSend(W_Join, Lower(cfg.chan), AfterJoin(cfg.capability))
    /\ capIdx' = 0
    /\ UNCHANGED <<appVars, cfg, stopEvent, conn, inflight, peerClosed, gen,
                   loopVars, mainPc, dialHist, recvHist, delivered,
                   stopMark>>

\* add_capability: send_req of the next capability.
SendCap ==
    /\ pc = "cap"
    /\ WorkerSend(W_CapReq, W_TwitchTv \o CapNames(cfg.capability)[capIdx + 1],
                  IF capIdx + 1 < Len(CapNames(cfg.capability)) THEN "cap" ELSE "loop")
    /\ capIdx' = capIdx + 1
    /\ UNCHANGED <<appVars, cfg, stopEvent, conn, inflight, peerClosed, gen,
                   loopVars, mainPc, dialHist, recvHist, delivered,
                   stopMark>>

(***************************************************************************)
(* run: the receive loop                                                   *)
(***************************************************************************)
\* while not self.stopped()
LoopTest ==
    /\ pc = "loop"
    /\ pc' = IF stopEvent THEN "ended" ELSE "recv"
    /\ UNCHANGED <<appVars, cfg, stopEvent, sockVars, gen, capIdx, loopVars, error,
                   mainPc, dialHist, recvHist, delivered, stopMark>>

\* Where the loop goes after the split: the for loop's first line, or the
\* while test when data_split is empty.
AfterSplit(split) == IF split.lines = <<>> THEN "loop" ELSE "parse"

\* recv returns n bytes. decode raises UnicodeDecodeError (continue, the
\* bytes are gone) or the text is appended to data and split.
RecvData ==
    /\ pc = "recv"
    /\ conn.state = "connected"
    /\ inflight # <<>>
    /\ \E n \in 1..Len(inflight) :
         LET chunk == SubSeq(inflight, 1, n)
             text == Decode(chunk)
             split == SplitData(data \o text)
         IN  /\ n <= RecvSize
             /\ inflight' = SubSeq(inflight, n + 1, Len(inflight))
             /\ rx' = rx \o chunk
             /\ IF text = NoneVal
                THEN /\ lastRecv' = [how |-> "decode", sock |-> connects]
                     /\ decodeFailed' = TRUE
                     /\ pc' = "loop"
                     /\ UNCHANGED <<data, lines>>
                ELSE /\ lastRecv' = [how |-> "data", sock |-> connects]
                     /\ decodeFailed' = decodeFailed
                     /\ data' = split.data
                     /\ lines' = split.lines
                     /\ pc' = AfterSplit(split)
    /\ UNCHANGED <<appVars, cfg, stopEvent, conn, wire, peerClosed, gen, capIdx,
                   message, error, mainPc, dialHist, delivered, stopMark>>

\* recv returns b"": the server has closed and nothing is left to read.
RecvEof ==
    /\ pc = "recv"
    /\ conn.state = "connected"
    /\ inflight = <<>>
    /\ peerClosed
    /\ lastRecv' = [how |-> "eof", sock |-> connects]
    /\ data' = SplitData(data \o Decode(<<>>)).data
    /\ lines' = SplitData(data \o Decode(<<>>)).lines
    /\ pc' = AfterSplit(SplitData(data \o Decode(<<>>)))
    /\ UNCHANGED <<appVars, cfg, stopEvent, sockVars, gen, capIdx, message, error,
                   mainPc, dialHist, rx, decodeFailed, delivered,
                   stopMark>>

\* A handler that only continues: no connect().
AfterRecvError_NoConnect == "loop"

\* except OSError: self.connect(); continue - the handler enters connect().
AfterRecvError == "dial"

\* recv raises OSError (socket.timeout after 330 s of silence, or a reset):
\* the handler calls connect() and continues. The failure ends a read that
\* found nothing to return: bytes lost to a reset are, to run(), bytes of a
\* shorter stream.
RecvError ==
    /\ pc = "recv"
    /\ connects < MaxConnects
    /\ conn.state = "connected"
    /\ inflight = <<>>
    /\ ~peerClosed
    /\ lastRecv' = [how |-> "OSError", sock |-> connects]
    /\ pc' = AfterRecvError
    /\ gen' = FreshGen
    /\ fails' = 0
    /\ UNCHANGED <<appVars, cfg, stopEvent, sockVars, capIdx, loopVars, error, mainPc,
                   slept, connects, rx, decodeFailed, delivered,
                   stopMark>>

\* A loop that never answers a PING.
AfterParse_NoPong(m) == "callback"

\* Where the for loop goes after Message(line) returned m.
AfterParse(m) == IF m.type = PingWord THEN "pong" ELSE "callback"

\* message = Message(line); an exception of the parser leaves run().
Parse ==
    /\ pc = "parse"
    /\ LET m == Message(Head(lines))
       IN  IF m.error # ""
           THEN /\ pc' = "ended"
                /\ error' = [exc |-> m.error, at |-> "Message"]
                /\ message' = message
           ELSE /\ pc' = AfterParse(m)
                /\ error' = error
                /\ message' = m
    /\ UNCHANGED <<appVars, cfg, stopEvent, sockVars, gen, capIdx, data, lines, mainPc,
                   dialHist, recvHist, delivered, stopMark>>

\* if message.type == "PING": self.send_pong()
SendPong ==
    /\ pc = "pong"
    /\ WorkerSend(W_Pong, <<>>, "callback")
    /\ UNCHANGED <<appVars, cfg, stopEvent, conn, inflight, peerClosed, gen, capIdx,
                   loopVars, mainPc, dialHist, recvHist, delivered, stopMark>>

\* Where the for loop goes after the callback: the next line, or the while
\* test when `rest` is empty.
AfterCallback(rest) == IF rest = <<>> THEN "loop" ELSE "parse"

\* self.callback(message), then the next line of data_split.
Callback ==
    /\ pc = "callback"
    /\ delivered' = Append(delivered, message.full_message)
    /\ stopMark' = IF stopMark.set THEN [stopMark EXCEPT !.calls = @ + 1]
                   ELSE stopMark
    /\ lines' = Tail(lines)
    /\ pc' = AfterCallback(Tail(lines))
    /\ UNCHANGED <<appVars, cfg, stopEvent, sockVars, gen, capIdx, data, message, error,
                   mainPc, dialHist, recvHist>>

Next ==
    \/ StartNonblocking
    \/ StartBlocking
    \/ Stop
    \/ WaitReturn
    \/ WaitInterrupt
    \/ WaitShutdown
    \/ ServerClose
    \/ DialOk
    \/ DialFail
    \/ SendPass
    \/ SendNick
    \/ SendJoin
    \/ SendCap
    \/ LoopTest
    \/ RecvData
    \/ RecvEof
    \/ RecvError
    \/ Parse
    \/ SendPong
    \/ Callback

Spec == Init /\ [][Next]_vars

(***************************************************************************)
(* The program against a silent server, under the scheduling its liveness  *)
(* depends on                                                              *)
(***************************************************************************)
\* The server of this specification sends nothing: a read ends by its
\* timeout, or by the server closing.
DialQuiet == Dial({<<>>})

NextLive ==
    \/ StartNonblocking
    \/ StartBlocking
    \/ Stop
    \/ WaitReturn
    \/ WaitInterrupt
    \/ WaitShutdown
    \/ ServerClose
    \/ DialQuiet
    \/ DialFail
    \/ SendPass
    \/ SendNick
    \/ SendJoin
    \/ SendCap
    \/ LoopTest
    \/ RecvEof
    \/ RecvError

\* The steps the thread of run() takes by itself once it is scheduled: its
\* writes, the loop test, a read that returns, and a dial that fails followed
\* by its sleep. Whether a dial succeeds is up to the network, not to the
\* thread.
RunStep ==
    \/ DialFail
    \/ SendPass
    \/ SendNick
    \/ SendJoin
    \/ SendCap
    \/ LoopTest
    \/ RecvEof
    \/ RecvError

\* The thread of run() keeps being scheduled, and a read that waits on the
\* silent connection is ended, at the latest by the server closing.
LiveSpec ==
    Init /\ [][NextLive]_vars /\ WF_vars(RunStep) /\ WF_vars(ServerClose)

(***************************************************************************)
(* Calls made on the object by a thread other than the one of run()        *)
(***************************************************************************)
calleeVars == <<cfg, stopEvent, conn, inflight, peerClosed, pc, gen, capIdx,
                loopVars, error, mainPc, dialHist, recvHist, delivered,
                stopMark>>

\* What a call leaves in appRes.
Called(op, args, raised, sent, line) ==
    [op |-> op, args |-> args, raised |-> raised, sent |-> sent, line |-> line]

\* _send called by another thread, on whatever self.conn is at that moment:
\* None has no send (AttributeError); otherwise the bytes are written, or
\* the exception of _send reaches the caller.
AppSend(op, args, command, msg) ==
    IF conn.state = "none"
    THEN /\ wire' = wire
         /\ appRes' = Called(op, args, "AttributeError", "", <<>>)
    ELSE \E r \in SendResults(conn) :
           IF r = "ok"
           THEN /\ wire' = Append(wire, [by |-> "app", bytes |-> Cmd(command, msg)])
                /\ appRes' = Called(op, args, "", r, Cmd(command, msg))
           ELSE /\ wire' = wire
                /\ appRes' = Called(op, args, SendError(r).exc, r, <<>>)

\* A send_message that writes to the socket whatever `live` is.
SendMessageWrites_Always(live) == TRUE

\* send_message: if self.live
SendMessageWrites(live) == live

\* send_message(message), called as `op` with `args`:
\* _send("PRIVMSG {} :".format(self.chan.lower()), message), or print(message).
SendMessageAs(op, args, text) ==
    /\ appCalls < MaxAppCalls
    /\ appCalls' = appCalls + 1
    /\ IF SendMessageWrites(cfg.live)
       THEN /\ AppSend(op, args, W_Privmsg \o Lower(cfg.chan) \o <<" ",":">>, text)
            /\ echo' = echo
       ELSE /\ wire' = wire
            /\ echo' = Append(echo, text)
            /\ appRes' = Called(op, args, "", "", <<>>)
    /\ UNCHANGED calleeVars

AppSendMessage == \E t \in AppTexts : SendMessageAs("send_message", <<t>>, t)

\* send_whisper: self.send_message(f"/w {user} {message}")
AppSendWhisper ==
    \E u \in AppUsers, t \in AppTexts :
        SendMessageAs("send_whisper", <<u, t>>, W_Whisper \o u \o <<" ">> \o t)

\* join_channel(channel): the assert, then send_join(channel.lower()).
AppJoinChannel ==
    \E ch \in ChannelArgs :
        /\ appCalls < MaxAppCalls
        /\ appCalls' = appCalls + 1
        /\ IF ch = <<>>
           THEN /\ wire' = wire
                /\ appRes' = Called("join_channel", <<ch>>, "AssertionError", "", <<>>)
           ELSE AppSend("join_channel", <<ch>>, W_Join, Lower(ch))
        /\ echo' = echo
        /\ UNCHANGED calleeVars

\* leave_channel(channel): send_part(channel.lower()).
AppLeaveChannel ==
    \E ch \in ChannelArgs :
        /\ appCalls < MaxAppCalls
        /\ appCalls' = appCalls + 1
        /\ AppSend("leave_channel", <<ch>>, W_Part, Lower(ch))
        /\ echo' = echo
        /\ UNCHANGED calleeVars

\* login(nickname, authentication): the two asserts, send_pass(authentication),
\* send_nick(nickname.lower()); the first exception ends the call.
AppLogin ==
    \E a \in LoginArgs :
        LET nickname == a[1]
            authentication == a[2]
            pass == Cmd(W_Pass, authentication)
            nick == Cmd(W_Nick, Lower(nickname))
        IN  /\ appCalls < MaxAppCalls
            /\ appCalls' = appCalls + 1
            /\ IF nickname = <<>> \/ authentication = <<>>
               THEN /\ wire' = wire
                    /\ appRes' = Called("login", a, "AssertionError", "", <<>>)
               ELSE IF conn.state = "none"
               THEN /\ wire' = wire
                    /\ appRes' = Called("login", a, "AttributeError", "", <<>>)
               ELSE \E r1, r2 \in SendResults(conn) :
                      IF r1 # "ok"
                      THEN /\ wire' = wire
                           /\ appRes' = Called("login", a, SendError(r1).exc, r1, <<>>)
                      ELSE IF r2 # "ok"
                      THEN /\ wire' = Append(wire, [by |-> "app", bytes |-> pass])
                           /\ appRes' = Called("login", a, SendError(r2).exc, r2, pass)
                      ELSE /\ wire' = wire \o <<[by |-> "app", bytes |-> pass],
                                                [by |-> "app", bytes |-> nick]>>
                           /\ appRes' = Called("login", a, "", r2, pass \o nick)
            /\ echo' = echo
            /\ UNCHANGED calleeVars

(***************************************************************************)
(* Message(raw_data) on its own                                            *)
(***************************************************************************)
\* Message(LineOf(inp)), once: the input, the line, the Message or the
\* exception. The constructor keeps no state between calls, so one call per
\* behaviour shows all it does.
AppParse ==
    /\ appCalls = 0
    /\ appCalls' = 1
    /\ \E inp \in ParseInputs :
         LET raw == LineOf(inp)
             m == Message(raw)
         IN  appRes' = [op |-> "Message", args |-> inp, raised |-> m.error,
                        sent |-> "", line |-> raw, out |-> m]
    /\ UNCHANGED <<wire, echo, calleeVars>>

NextParse == AppParse

SpecParse == Init /\ [][NextParse]_vars

InitApp == InitOf(AppConfigs)

\* The thread of run() connecting and reconnecting to a silent server whose
\* reads end by their timeout, and another thread calling the object meanwhile.
NextApp ==
    \/ StartNonblocking
    \/ DialQuiet
    \/ DialFail
    \/ SendPass
    \/ SendNick
    \/ SendJoin
    \/ SendCap
    \/ LoopTest
    \/ RecvError
    \/ AppSendMessage
    \/ AppSendWhisper
    \/ AppJoinChannel
    \/ AppLeaveChannel
    \/ AppLogin

SpecApp == InitApp /\ [][NextApp]_vars

(***************************************************************************)
(* Vocabulary of the properties                                            *)
(***************************************************************************)
ConnectPcs == {"dial", "pass", "nick", "join", "cap"}
HandshakePcs == {"pass", "nick", "join", "cap"}
LoopPcs == {"loop", "recv", "parse", "pong", "callback"}

\* The command word of a line written on the socket: the text before its
\* first space.
CommandWord(bytes) == SubSeq(bytes, 1, Find(bytes, <<" ">>, 1) - 1)

\* The command words run()'s thread has written on conn, in order.
RunCommands ==
    LET mine == SelectSeq(wire, LAMBDA w : w.by = "run")
    IN  [i \in 1..Len(mine) |-> CommandWord(mine[i].bytes)]

\* The handshake of the configuration: PASS, NICK, JOIN, one CAP per
\* configured capability.
HandshakeCommands ==
    <<<<"P","A","S","S">>, <<"N","I","C","K">>, <<"J","O","I","N">>>>
    \o [i \in 1..Len(cfg.capability.names) |-> <<"C","A","P">>]

IsPrefix(a, b) == Len(a) <= Len(b) /\ SubSeq(b, 1, Len(a)) = a

\* The CRLF-terminated lines of a text and the fragment after the last CRLF,
\* read off the text character by character.
RECURSIVE ScanLines(_, _, _, _)
ScanLines(text, i, cur, acc) ==
    IF i > Len(text) THEN [lines |-> acc, frag |-> cur]
    ELSE IF text[i] = "\r" /\ i < Len(text) /\ text[i + 1] = "\n"
    THEN ScanLines(text, i + 2, <<>>, Append(acc, cur))
    ELSE ScanLines(text, i + 1, Append(cur, text[i]), acc)

\* The delays of consecutive failed dials, as the documentation lists them.
DocumentedDelays == <<0, 1, 2, 4, 8, 16, 32, 64, 128, 256, 512>>
DocumentedDelay(k) ==
    IF k <= Len(DocumentedDelays) THEN DocumentedDelays[k] ELSE 512

PongLine == <<"P","O","N","G"," ","\r","\n">>

(***************************************************************************)
(* Properties                                                              *)
(***************************************************************************)

\* C1: a read that fails with OSError (timeout included) sends the thread
\* into connect(): a new socket, then PASS, NICK, JOIN and the CAP REQs; the
\* thread is back at the loop only on that new socket with the handshake
\* written and nothing else, and the loop ends after it only through the
\* stop flag.
C1_ReadFailureRunsFullConnect ==
    lastRecv.how = "OSError" =>
        /\ pc \notin {"parse", "pong", "callback"}
        /\ pc \in {"loop", "recv"} =>
              /\ connects > lastRecv.sock
              /\ conn.state = "connected"
              /\ rx = <<>>
              /\ RunCommands = HandshakeCommands
        /\ (pc = "ended" /\ error = NoError) =>
              /\ stopEvent
              /\ connects > lastRecv.sock
              /\ RunCommands = HandshakeCommands

C1_Witness ==
    /\ lastRecv.how = "OSError"
    /\ pc = "recv"
    /\ connects = 2
    /\ ~stopEvent
    /\ Len(wire) = 5

\* C2: within one connect() call the k-th failed dial sleeps the k-th of
\* 0,1,2,4,...,512,512,...; the thread is past connect() only with a connected
\* socket; and the count starts again in every connect() call.
C2_BackoffSequence ==
    /\ (pc = "dial" /\ fails >= 1) => slept = DocumentedDelay(fails)
    /\ pc \in (HandshakePcs \cup LoopPcs) => conn.state = "connected"

C2_Witness ==
    /\ pc = "dial"
    /\ connects = 1
    /\ fails = 12
    /\ slept = 512

\* C3: whenever the thread of run() has ended, the stop flag is set.
C3_EndsOnlyOnStop == pc = "ended" => stopEvent

\* C4: a line the parser rejects never ends run().
C4_MalformedLineNeverHalts == ~(pc = "ended" /\ error.at = "Message")

\* C5: a socket failure met by the thread of run() (on read, on a handshake
\* write, on the PONG write) never ends run().
C5_SocketFailureNeverEndsLoop == ~(pc = "ended" /\ error.at = "_send")

\* C6: on the first connection, with no read or decode failure, the lines
\* handed to the callback followed by the lines of the read being processed
\* are exactly the CRLF-terminated lines of the bytes received so far, and
\* the buffer is the fragment after the last CRLF.
C6_LinesInWireOrder ==
    (connects = 1 /\ ~decodeFailed /\ lastRecv.how # "OSError") =>
        LET scan == ScanLines(Decode(rx), 1, <<>>, <<>>)
        IN  /\ delivered \o lines = scan.lines
            /\ data = scan.frag

\* One line delivered, the next one cut between its CR and its LF.
C6_Witness ==
    /\ connects = 1
    /\ ~decodeFailed
    /\ lastRecv.how = "data"
    /\ delivered = <<PingWord>>
    /\ lines = <<>>
    /\ data = <<"a", " ", "b", "\r">>
    /\ pc = "recv"

\* C7: the PONG lines written on the socket are as many as the PING messages
\* handed to the callback, plus one while the callback of a PING is about to
\* be invoked: the PONG is written first, and the callback follows it.
C7_PongBeforeCallback ==
    LET pingsDelivered ==
            Cardinality({i \in 1..Len(delivered) :
                            Message(delivered[i]).type = PingWord})
        pongsWritten ==
            Cardinality({i \in 1..Len(wire) :
                            wire[i].by = "run" /\ wire[i].bytes = PongLine})
        pending == IF pc = "callback" /\ message.type = PingWord THEN 1 ELSE 0
    IN  /\ pongsWritten = pingsDelivered + pending
        /\ (pc = "pong") => (message.type = PingWord /\ lines # <<>>
                              /\ Head(lines) = message.full_message)

C7_Witness ==
    /\ pc = "callback"
    /\ message.type = PingWord
    /\ wire[Len(wire)].bytes = PongLine

\* C8: while connect() is writing the handshake the callback has not been
\* invoked on the new socket and the lines written are a prefix of PASS,
\* NICK, JOIN, CAP REQ...; once the thread is in the loop the socket's first
\* lines are that whole handshake, in that order.
C8_HandshakeBeforeLoop ==
    /\ pc \in HandshakePcs =>
          /\ delivered = <<>>
          /\ IsPrefix(RunCommands, HandshakeCommands)
          /\ Len(RunCommands) < Len(HandshakeCommands)
    /\ pc \in LoopPcs => IsPrefix(HandshakeCommands, RunCommands)

C8_Witness ==
    /\ pc = "callback"
    /\ connects = 2
    /\ cfg.capability.kind = "list"
    /\ Len(wire) = 5

\* C9: after stop() the callback is invoked for at most one more line.
C9_StopAfterCurrentLine == stopMark.set => stopMark.calls <= 1

RepeatedStopStep ==
    /\ stopEvent
    /\ \/ stopMark'.again /\ ~stopMark.again
       \/ mainPc = "wait" /\ mainPc' = "shutdown"

\* C11: stop() is idempotent. Once stop() has been called stopped() stays true,
\* and a stop() call made when the flag is already set, from the owning thread
\* or from any other, leaves the socket, what was written and received on it,
\* the thread of run() and its buffers as they were, and raises nothing.
C11_StopIdempotent ==
    [][stopEvent =>
         /\ stopEvent'
         /\ RepeatedStopStep =>
               /\ UNCHANGED <<cfg, conn, wire, inflight, peerClosed, pc, gen,
                              capIdx, data, lines, message, error, connects>>
               /\ mainPc' = "raised" => mainPc = "raised"]_vars

\* C11 witness: stop() has been called again after the first call, with a
\* connected socket and the thread of run() still in its loop.
C11_Witness ==
    /\ stopMark.again
    /\ stopEvent
    /\ conn.state = "connected"
    /\ pc \in LoopPcs

\* A step that is a call of send_message or send_whisper by another thread.
SendMessageStep ==
    /\ appCalls' = appCalls + 1
    /\ appRes'.op \in {"send_message", "send_whisper"}

\* The text send_message was given in that call: its argument, or for
\* send_whisper "/w <user> <message>".
SentText(call) ==
    IF call.op = "send_message" THEN call.args[1]
    ELSE <<"/","w"," ">> \o call.args[1] \o <<" ">> \o call.args[2]

\* The line that addresses `text` to the channel of AppConfigs.
PrivmsgLine(text) ==
    <<"P","R","I","V","M","S","G"," ","#","t","o","m"," ",":">> \o text
        \o <<"\r","\n">>

\* C12: send_message, and send_whisper through it, writes to the socket exactly
\* when the connection is live. When it is not, the call leaves the socket as
\* it is and appends the text to the local echo; when it is, the call prints
\* nothing and, unless the write fails, appends to what is written on the
\* socket exactly the one line "PRIVMSG #tom :<text>" with its CRLF.
C12_SendMessageLiveOrEcho ==
    [][SendMessageStep =>
         IF cfg.live
         THEN /\ echo' = echo
              /\ appRes'.raised = "" =>
                    wire' = Append(wire, [by |-> "app",
                                          bytes |-> PrivmsgLine(SentText(appRes'))])
              /\ appRes'.raised # "" => wire' = wire
         ELSE /\ wire' = wire
              /\ conn' = conn
              /\ appRes'.raised = ""
              /\ echo' = Append(echo, SentText(appRes'))]_vars

\* C12 witness: a live connection on which send_whisper has written its line.
C12_Witness ==
    /\ cfg.live
    /\ appRes.op = "send_whisper"
    /\ appRes.raised = ""
    /\ \E i \in 1..Len(wire) :
         wire[i] = [by |-> "app", bytes |-> PrivmsgLine(SentText(appRes))]
    /\ echo = <<>>

\* C13: a write that reports zero bytes sent fails the send_* call with the
\* RuntimeError of _send, raised to its caller, and starts no reconnect. For a
\* call of another thread: the socket, the count of connections and the
\* position of run()'s thread are as before and nothing of the handshake is
\* written. For a write of run()'s own thread: the error leaves run() and the
\* thread ends on the socket it had.
C13_ZeroWriteFailsCallerOnly ==
    [][/\ (appCalls' = appCalls + 1 /\ appRes'.sent = "zero") =>
            /\ appRes'.raised = "RuntimeError"
            /\ UNCHANGED <<conn, connects, pc, gen, fails, error>>
            /\ RunCommands' = RunCommands
       /\ (error'.exc = "RuntimeError" /\ error.exc = "") =>
            /\ pc' = "ended"
            /\ UNCHANGED <<conn, connects, wire>>]_vars

\* C13 witness: a send of another thread got zero bytes and RuntimeError while
\* run()'s thread stays in its loop on the first socket.
C13_Witness ==
    /\ appRes.sent = "zero"
    /\ appRes.raised = "RuntimeError"
    /\ appRes.op = "send_message"
    /\ conn.state = "connected"
    /\ connects = 1
    /\ pc = "recv"

\* The channel "Tom" as Twitch names it: lower case, one leading "#".
TomChannel == <<"#","t","o","m">>

\* C14: join_channel(name) writes a JOIN and leave_channel(name) a PART whose
\* channel argument is the lower-cased name with exactly one leading "#": for
\* the names "Tom" and "#tom" the line written is "JOIN #tom" or "PART #tom"
\* with its CRLF.
C14_ChannelNormalized ==
    (appRes.op \in {"join_channel", "leave_channel"}
        /\ appRes.args[1] # <<>> /\ appRes.raised = "") =>
    appRes.line = (IF appRes.op = "join_channel"
                   THEN <<"J","O","I","N"," ">> ELSE <<"P","A","R","T"," ">>)
                  \o TomChannel \o <<"\r","\n">>

\* C15: login, join_channel and leave_channel given an empty argument fail and
\* write nothing: the call raises and no line of it reaches the socket.
C15_EmptyArgumentFails ==
    (appRes.op \in {"login", "join_channel", "leave_channel"}
        /\ \E i \in 1..Len(appRes.args) : appRes.args[i] = <<>>) =>
    (appRes.raised # "" /\ appRes.line = <<>>)

\* A Message was constructed from a line whose command is PING or PONG.
ParsedPing ==
    /\ appRes.op = "Message"
    /\ appRes.raised = ""
    /\ appRes.args.prefix = <<>>
    /\ appRes.args.type \in {PingWord, PongWord}

\* The fields every PING and PONG Message has: the type is the four
\* characters, the full text is the line, and user, params, channel and body
\* are absent.
PingFields ==
    /\ appRes.out.type = appRes.args.type
    /\ appRes.out.full_message = appRes.line
    /\ appRes.out.user = NoneVal
    /\ appRes.out.params = NoneVal
    /\ appRes.out.channel = NoneVal
    /\ appRes.out.message = NoneVal

\* C16, as claimed: the Message of a PING or PONG line, with or without a tag
\* block, has only type and full text populated: tags is empty and user,
\* params, channel and body are absent.
C16_PingOnlyTypeAndText ==
    ParsedPing => (PingFields /\ appRes.out.tags = <<>>)

\* C16, amended: the Message of a PING or PONG line has type and full text
\* populated and user, params, channel and body absent; tags holds the pairs
\* of the line's tag block, and is empty exactly when the line has none.
C16_PingKeepsTags ==
    ParsedPing => (PingFields /\ appRes.out.tags = appRes.args.tags.dict)

\* C16 witness: a PING line with a tag block and a body was parsed.
C16_Witness ==
    /\ ParsedPing
    /\ appRes.args.tags.text # <<>>
    /\ appRes.args.body # NoneVal
    /\ appRes.out.tags # <<>>

\* C17: for every parsed line that is not a PING or PONG, params is what
\* follows the type token and one space in the command, the empty string when
\* nothing follows - also when the text of the type occurs earlier in the
\* command, as in the sender prefix "b353.tmi.twitch.tv" of a 353 reply.
C17_ParamsFollowType ==
    (appRes.op = "Message" /\ appRes.raised = "" /\ appRes.args.prefix # <<>>) =>
    appRes.out.params = appRes.args.params

\* C18: once stop() has been signaled and the thread of run() has been
\* started, the thread eventually ends - also when the signal comes while the
\* thread is inside connect() and every dial keeps failing.
C18_StopTerminates == (stopEvent /\ pc # "new") ~> (pc = "ended")

\* C19: a line handed to the parser and the callback is made only of bytes
\* received on the connection in use: while the for loop holds a line (and
\* every read on that connection decoded), the line's bytes are a stretch of
\* what recv has returned on it.
C19_LineFromOneConnection ==
    (pc \in {"parse", "pong", "callback"} /\ ~decodeFailed) =>
    Contains(rx, Encode(Head(lines)))

\* The thread of run() is inside the connect() of its read-failure handler.
Reconnecting == pc \in ConnectPcs /\ lastRecv.how = "OSError"

\* C20: a send_message of another thread in live mode, made while the thread
\* of run() is reconnecting, never acts on a socket that is not yet connected,
\* and writes its PRIVMSG only behind the PASS, NICK and JOIN that run()'s
\* thread has written on that socket.
C20_SendWaitsForHandshake ==
    [][(SendMessageStep /\ cfg.live /\ Reconnecting) =>
         /\ conn.state # "unconnected"
         /\ wire' # wire =>
               /\ Len(RunCommands) >= 3
               /\ SubSeq(RunCommands, 1, 3) =
                     << <<"P","A","S","S">>, <<"N","I","C","K">>,
                        <<"J","O","I","N">> >>]_vars


\* C21: when the server has closed the connection in an orderly way, so that
\* the read the thread of run() waits in returns zero bytes, the thread
\* eventually runs connect() - unless stop() is signaled.
C21_EofLeadsToConnect ==
    (pc = "recv" /\ peerClosed /\ inflight = <<>>) ~>
    (pc \in ConnectPcs \/ stopEvent)

====
